---- MODULE Spec2Model ----
(***************************************************************************)
(* Model of src/api_service.py: the FastAPI routing layer of the FHIR data *)
(* access API.  Five route handlers, each a try/except around one call to  *)
(* a collaborator of module app_fhir.  The handlers are `async def` bodies *)
(* with no await, so one handler runs to completion before the event loop  *)
(* starts another: a request is in flight from its arrival until its       *)
(* handler has run.                                                        *)
(*                                                                         *)
(* Text is modelled as a sequence of segments.  A segment is a pair        *)
(* <<"lit", s>> (literal text of the source) or <<"val", s>> (a value the  *)
(* f-string interpolates).                                                 *)
(***************************************************************************)
EXTENDS Naturals, Sequences, FiniteSets, TLC

VARIABLES requests, log

vars == <<requests, log>>

\* ------------------------------------------------------------------ bounds
MaxRequests == 2
MaxSummaries == 1

\* ------------------------------------------------------------ Python values
PyNone == [t |-> "none", v |-> <<>>]
PyList(xs) == [t |-> "list", v |-> xs]
IsList(x) == x.t = "list"
Absent == "<absent>"

Lit(s) == <<"lit", s>>
Val(s) == <<"val", s>>

\* SummaryRequest.model / ChatRequest.model default
DefaultModel == "us.anthropic.claude-3-5-sonnet-20240620-v1:0"
\* SummaryRequest.summary_model default
DefaultSummaryModel == "us.anthropic.claude-3-sonnet-20240229-v1:0"

\* --------------------------------------------------------------- exceptions
\* An exception is its class and its message; str(e) keeps the message only.
Exc(type, msg) == [type |-> type, msg |-> msg]
Str(e) == e.msg
NoFault == [stage |-> "none", table |-> "", exc |-> Exc("", "")]
Fault(stage, table, e) == [stage |-> stage, table |-> table, exc |-> e]

CollabErrors ==
  { Exc("ClientError", "AccessDeniedException"),
    Exc("ReadTimeoutError", "Read timed out") }

\* ---------------------------------------------------------------- responses
\* Mutant: the detail is the exception's class name instead of its message.
HttpErrorWithType(e) == [status |-> 500, body |-> [detail |-> e.type]]

\* raise HTTPException(status_code=500, detail=str(e))
HttpError(e) == [status |-> 500, body |-> [detail |-> Str(e)]]
HttpOk(body) == [status |-> 200, body |-> body]
\* FastAPI's answer to a body that fails the pydantic request model
HttpUnprocessable(e) == [status |-> 422, body |-> [detail |-> Str(e)]]

\* The result of running one handler: the collaborator calls it made, what the
\* collaborator did (got), the response, and where (if anywhere) an exception
\* was raised.
Result(calls, got, resp, fault) ==
  [calls |-> calls, got |-> got, resp |-> resp, fault |-> fault]
Call(fn, args) == [fn |-> fn, args |-> args]

\* What a Python call did: returned a value or raised an exception.
Returned(v) == [raised |-> FALSE, val |-> v, exc |-> Exc("", ""), fault |-> NoFault]
Raised(stage, table, e) ==
  [raised |-> TRUE, val |-> PyNone, exc |-> e, fault |-> Fault(stage, table, e)]

\* No collaborator was called.
NoCall == Returned(PyNone)

\* ------------------------------------------------------------ pydantic models
\* Mutant: the request model demands at least one table.
SummaryRequestNonEmpty(raw) ==
  IF \/ raw.database = Absent \/ raw.patient_id = Absent
     \/ raw.prompt_template = Absent \/ ~IsList(raw.tables) \/ raw.tables.v = <<>>
  THEN Raised("validation", "", Exc("RequestValidationError", "value is not a valid list"))
  ELSE Returned([database |-> raw.database,
                 tables |-> raw.tables.v,
                 patient_id |-> raw.patient_id,
                 prompt_template |-> raw.prompt_template,
                 model |-> IF raw.model = Absent THEN DefaultModel ELSE raw.model,
                 summary_model |-> IF raw.summary_model = Absent
                                   THEN DefaultSummaryModel ELSE raw.summary_model])

\* class SummaryRequest(BaseModel): four required fields, two defaulted ones.
\* tables: List[str] accepts any list, the empty one included.
SummaryRequest(raw) ==
  IF \/ raw.database = Absent \/ raw.patient_id = Absent
     \/ raw.prompt_template = Absent \/ ~IsList(raw.tables)
  THEN Raised("validation", "", Exc("RequestValidationError", "value is not a valid list"))
  ELSE Returned([database |-> raw.database,
                 tables |-> raw.tables.v,
                 patient_id |-> raw.patient_id,
                 prompt_template |-> raw.prompt_template,
                 model |-> IF raw.model = Absent THEN DefaultModel ELSE raw.model,
                 summary_model |-> IF raw.summary_model = Absent
                                   THEN DefaultSummaryModel ELSE raw.summary_model])

\* class ChatRequest(BaseModel): question and context required, model defaulted.
ChatRequest(raw) ==
  IF raw.question = Absent \/ raw.context = Absent
  THEN Raised("validation", "", Exc("RequestValidationError", "field required"))
  ELSE Returned([question |-> raw.question,
                 context |-> raw.context,
                 model |-> IF raw.model = Absent THEN DefaultModel ELSE raw.model])

\* class DatabaseInfo(BaseModel): databases is a required list; tables is None
\* or a dict of lists; patient_ids is None or a list.  A dict is modelled by
\* its single entry.
PyDict(k, x) == [t |-> "dict", v |-> <<k>>, item |-> x]
DatabaseInfo(databases, tables, patient_ids) ==
  IF /\ IsList(databases)
     /\ (tables = PyNone \/ (tables.t = "dict" /\ IsList(tables.item)))
     /\ (patient_ids = PyNone \/ IsList(patient_ids))
  THEN Returned([databases |-> databases, tables |-> tables, patient_ids |-> patient_ids])
  ELSE Raised("handler", "", Exc("ValidationError", "validation error for DatabaseInfo"))

\* ------------------------------------------------- collaborators (app_fhir)
\* The catalog and query collaborators are external: `env` is what the call
\* does this time, [kind |-> "return", val |-> v] or [kind |-> "raise", exc |-> e].
Outcome(env) ==
  IF env.kind = "raise" THEN Raised("collaborator", "", env.exc) ELSE Returned(env.val)
get_database_list(catalog, env) == Outcome(env)
get_tables(database, env) == Outcome(env)
get_patient_id(sql, params, env) == Outcome(env)

\* The text-completion client.  env.kind is "text" (the model answers
\* env.text), "echo" (a stub that answers with the prompt it was given) or
\* "raise".
summary_llm(prompts, params, system_prompt, extra, env) ==
  CASE env.kind = "raise" -> Raised("llm", "", env.exc)
    [] env.kind = "echo" -> Returned(prompts)
    [] OTHER -> Returned(env.text)

\* The summarization pipeline db_summary([first_table, params]), which is not
\* part of api_service.py; modelled from the design: for each requested table,
\* in the order requested, one patient-scoped query, then one section summary
\* for a table that yielded rows (none for a table with no rows), then one
\* consolidation call.  A failing query or LLM call aborts the pipeline with
\* the collaborator's exception.  env.table[t] is what happens for table t:
\* "rows" (rows found and summarized), "empty" (no rows), "query_error" or
\* "llm_error"; env.consol is "ok" or "error"; env.exc is the exception a
\* failing collaborator raises.
SectionSummary(t, params) ==
  [table |-> t, summary |-> <<Lit("Summary of table"), Val(t), Val(params.id)>>]

RECURSIVE section_summaries(_, _, _)
section_summaries(tables, params, env) ==
  IF tables = <<>> THEN Returned(<<>>)
  ELSE LET t == Head(tables) IN
       CASE env.table[t] = "query_error" -> Raised("query", t, env.exc)
         [] env.table[t] = "llm_error" -> Raised("section_summary", t, env.exc)
         [] OTHER ->
              LET rest == section_summaries(Tail(tables), params, env) IN
              IF rest.raised THEN rest
              ELSE IF env.table[t] = "empty" THEN rest
              ELSE Returned(<<SectionSummary(t, params)>> \o rest.val)

RECURSIVE SectionTables(_)
SectionTables(sections) ==
  IF sections = <<>> THEN <<>>
  ELSE <<Val(Head(sections).table)>> \o SectionTables(Tail(sections))

consolidate(sections, params, env) ==
  IF env.consol = "error" THEN Raised("consolidation", "", env.exc)
  ELSE Returned(<<Val(params.template), Val(params.summary_model)>>
                \o SectionTables(sections))

db_summary(arg, env) ==
  LET params == arg[2]
      secs == section_summaries(params.table, params, env)
  IN IF secs.raised THEN secs
     ELSE LET c == consolidate(secs.val, params, env) IN
          IF c.raised THEN c
          ELSE Returned(<<c.val, secs.val>>)

\* ------------------------------------------------------------ route handlers
\* Each handler is try: ... except Exception as e: raise HTTPException(500, str(e)).
Caught(calls, got, r) == Result(calls, got, HttpError(r.exc), r.fault)

\* @app.get("/api/v1/databases")
get_databases(env) ==
  LET calls == <<Call("get_database_list", [catalog |-> "AwsDataCatalog"])>>
      databases == get_database_list("AwsDataCatalog", env)
  IN IF databases.raised THEN Caught(calls, databases, databases)
     ELSE LET info == DatabaseInfo(databases.val, PyNone, PyNone) IN
          IF info.raised THEN Caught(calls, databases, info)
          ELSE Result(calls, databases, HttpOk(info.val), NoFault)

\* Mutant: a module-level error flag; once any request has failed, the handler
\* answers 500 without calling its collaborator.
get_database_tables_sticky(database, env) ==
  IF \E j \in DOMAIN log : log[j].resp.status = 500
  THEN Result(<<>>, NoCall, HttpError(Exc("RuntimeError", "service unavailable")), NoFault)
  ELSE LET calls == <<Call("get_tables", [database |-> database])>>
           tables == get_tables(database, env)
       IN IF tables.raised THEN Caught(calls, tables, tables)
          ELSE LET info == DatabaseInfo(PyList(<<database>>),
                                        PyDict(database, tables.val), PyNone) IN
               IF info.raised THEN Caught(calls, tables, info)
               ELSE Result(calls, tables, HttpOk(info.val), NoFault)

\* @app.get("/api/v1/databases/{database}/tables")
get_database_tables(database, env) ==
  LET calls == <<Call("get_tables", [database |-> database])>>
      tables == get_tables(database, env)
  IN IF tables.raised THEN Caught(calls, tables, tables)
     ELSE LET info == DatabaseInfo(PyList(<<database>>),
                                   PyDict(database, tables.val), PyNone) IN
          IF info.raised THEN Caught(calls, tables, info)
          ELSE Result(calls, tables, HttpOk(info.val), NoFault)

\* @app.get("/api/v1/databases/{database}/patients")
get_patients(database, env) ==
  LET sql == "SELECT id FROM healthlake_db.patient;"
      params == [db |-> database, model |-> DefaultModel]
      calls == <<Call("get_patient_id", [sql |-> sql, params |-> params])>>
      patient_ids == get_patient_id(sql, params, env)
  IN IF patient_ids.raised THEN Caught(calls, patient_ids, patient_ids)
     ELSE LET info == DatabaseInfo(PyList(<<database>>), PyNone, patient_ids.val) IN
          IF info.raised THEN Caught(calls, patient_ids, info)
          ELSE Result(calls, patient_ids, HttpOk(info.val), NoFault)

\* Mutant: model and summary_model change places.
SummaryParamsSwapped(request) ==
  [table |-> request.tables,
   db |-> request.database,
   model |-> request.summary_model,
   summary_model |-> request.model,
   id |-> request.patient_id,
   template |-> request.prompt_template]

\* Mutant: the pipeline is handed every table, not the requested ones.
SummaryParamsAllTables(request) ==
  [table |-> <<"patient", "observation">>,
   db |-> request.database,
   model |-> request.model,
   summary_model |-> request.summary_model,
   id |-> request.patient_id,
   template |-> request.prompt_template]

\* @app.post("/api/v1/summary")
SummaryParams(request) ==
  [table |-> request.tables,
   db |-> request.database,
   model |-> request.model,
   summary_model |-> request.summary_model,   \* key 'summary-model'
   id |-> request.patient_id,
   template |-> request.prompt_template]

get_patient_summary(request, env) ==
  LET params == SummaryParams(request) IN
  IF request.tables = <<>>
  THEN \* request.tables[0] raises before db_summary is called
       Caught(<<>>, NoCall, Raised("handler", "", Exc("IndexError", "list index out of range")))
  ELSE LET arg == <<request.tables[1], params>>
           calls == <<Call("db_summary", arg)>>
           r == db_summary(arg, env)
       IN IF r.raised THEN Caught(calls, r, r)
          ELSE Result(calls, r,
                      HttpOk([consolidated_summary |-> r.val[1],
                              fhir_section_summary |-> r.val[2]]),
                      NoFault)

\* @app.post("/api/v1/chat")
SystemPrompt == <<Lit("You are a medical expert.")>>
RecordOpen == Lit("<record>")
RecordClose == Lit("</record>")
AnswerFromRecord == Lit("Provide an answer to the question if available in the medical record.")
NoVerbatimQuote == Lit("Do not include or reference quoted content verbatim in the answer.")
SayIfUnanswerable == Lit("If the question cannot be answered by the document, say so.")

\* Mutant: the question is placed right after the record, before the instructions.
ChatPromptQuestionFirst(request) ==
  << Lit("Here is a medical record:"),
     RecordOpen,
     Val(request.context),
     RecordClose,
     Lit(""),
     Lit("Question: "),
     Val(request.question),
     Lit("?"),
     Lit(""),
     Lit("Review the medical record thoroughly."),
     AnswerFromRecord,
     NoVerbatimQuote,
     SayIfUnanswerable >>

\* Mutant: with no context the prompt is the bare question.
ChatPromptBareWhenEmpty(request) ==
  IF request.context = ""
  THEN <<Lit("Question: "), Val(request.question), Lit("?")>>
  ELSE << Lit("Here is a medical record:"), RecordOpen, Val(request.context),
          RecordClose, Lit(""), Lit("Review the medical record thoroughly."),
          AnswerFromRecord, NoVerbatimQuote, SayIfUnanswerable, Lit(""),
          Lit("Question: "), Val(request.question), Lit("?") >>

ChatPrompt(request) ==
  << Lit("Here is a medical record:"),
     RecordOpen,
     Val(request.context),
     RecordClose,
     Lit(""),
     Lit("Review the medical record thoroughly."),
     AnswerFromRecord,
     NoVerbatimQuote,
     SayIfUnanswerable,
     Lit(""),
     Lit("Question: "),
     Val(request.question),
     Lit("?") >>

\* Mutant: a failed LLM call is tried a second time.
chat_with_summary_retry(request, env) ==
  LET system_prompt == SystemPrompt
      prompts == ChatPrompt(request)
      params == [model |-> request.model]
      call == Call("summary_llm", [prompts |-> prompts, params |-> params,
                                   system_prompt |-> system_prompt])
      response == summary_llm(prompts, params, system_prompt, PyNone, env)
  IN IF response.raised THEN Caught(<<call, call>>, response, response)
     ELSE Result(<<call>>, response, HttpOk([response |-> response.val]), NoFault)

\* Mutant: conversation memory; once a request has been answered, the prompt
\* of the next one refers to the earlier exchange.
chat_with_summary_memory(request, env) ==
  LET system_prompt == SystemPrompt
      prompts == IF DOMAIN log = {} THEN ChatPrompt(request)
                 ELSE <<Lit("Continue the earlier conversation.")>> \o ChatPrompt(request)
      params == [model |-> request.model]
      calls == <<Call("summary_llm", [prompts |-> prompts, params |-> params,
                                      system_prompt |-> system_prompt])>>
      response == summary_llm(prompts, params, system_prompt, PyNone, env)
  IN IF response.raised THEN Caught(calls, response, response)
     ELSE Result(calls, response, HttpOk([response |-> response.val]), NoFault)

chat_with_summary(request, env) ==
  LET system_prompt == SystemPrompt
      prompts == ChatPrompt(request)
      params == [model |-> request.model]
      calls == <<Call("summary_llm", [prompts |-> prompts, params |-> params,
                                      system_prompt |-> system_prompt])>>
      response == summary_llm(prompts, params, system_prompt, PyNone, env)
  IN IF response.raised THEN Caught(calls, response, response)
     ELSE Result(calls, response, HttpOk([response |-> response.val]), NoFault)

\* ------------------------------------------------------------------- routes
\* FastAPI validates the body against the handler's pydantic model before it
\* calls the handler; a body that fails validation is answered 422.
Rejected(v) == Result(<<>>, NoCall, HttpUnprocessable(v.exc), NoFault)

post_summary(raw, env) ==
  LET v == SummaryRequest(raw) IN
  IF v.raised THEN Rejected(v) ELSE get_patient_summary(v.val, env)

post_chat(raw, env) ==
  LET v == ChatRequest(raw) IN
  IF v.raised THEN Rejected(v) ELSE chat_with_summary(v.val, env)

\* ------------------------------------------------------------ input domains
Databases == {"healthlake_db", "research_db"}
TableNames == {"patient", "observation"}
TableLists ==
  { <<>>, <<"patient">>, <<"observation">>, <<"patient", "observation">>,
    <<"observation", "patient">>, <<"patient", "patient">> }
Models == {Absent, "anthropic.claude-3-haiku-20240307-v1:0"}

SummaryBody(d, ts, m) ==
  [database |-> d, tables |-> ts, patient_id |-> "patient-1",
   prompt_template |-> "Summarize the record.", model |-> m, summary_model |-> Absent]
SummaryBodies ==
  { SummaryBody(d, ts, m) :
      d \in Databases, ts \in {PyList(l) : l \in TableLists} \cup {PyNone}, m \in Models }
SummarySample ==
  { SummaryBody("healthlake_db", ts, Absent) :
      ts \in {PyList(<<>>), PyList(<<"patient">>), PyList(<<"patient", "observation">>),
              PyNone} }

ChatBody(q, c, m) == [question |-> q, context |-> c, model |-> m]
ChatBodies ==
  { ChatBody(q, c, m) :
      q \in {"", "Does the patient have hypertension"},
      c \in {"", "Patient has type 2 diabetes, diagnosed 2019.", Absent},
      m \in Models }
ChatSample ==
  { ChatBody("Does the patient have hypertension", c, Absent) :
      c \in {"", "Patient has type 2 diabetes, diagnosed 2019.", Absent} }

ReturnEnv(x) == [kind |-> "return", val |-> x, exc |-> Exc("", "")]
RaiseEnv(e) == [kind |-> "raise", val |-> PyNone, exc |-> e]
ListEnvs(lists) ==
  {ReturnEnv(PyList(l)) : l \in lists} \cup {ReturnEnv(PyNone)}
    \cup {RaiseEnv(e) : e \in CollabErrors}

LlmEnvs ==
  { [kind |-> "text", text |-> <<Lit("The record does not mention hypertension.")>>,
     exc |-> Exc("", "")],
    [kind |-> "echo", text |-> <<>>, exc |-> Exc("", "")] }
    \cup { [kind |-> "raise", text |-> <<>>, exc |-> e] : e \in CollabErrors }

PipelineEnvs ==
  [table : [TableNames -> {"rows", "empty", "query_error", "llm_error"}],
   consol : {"ok", "error"},
   exc : CollabErrors]

\* ------------------------------------------------------------- state machine
\* requests: the requests received, in arrival order; log: the handler result
\* of each request answered so far.
Init == requests = <<>> /\ log = <<>>

Request(endpoint, raw) == [endpoint |-> endpoint, raw |-> raw]
Pending == {i \in 1..Len(requests) : i \notin DOMAIN log}
Done == DOMAIN log

Arrive(r, limit) ==
  /\ Len(requests) < limit
  /\ requests' = Append(requests, r)
  /\ UNCHANGED log

Respond(i, res) ==
  /\ log' = log @@ (i :> res)
  /\ UNCHANGED requests

ArriveGet(limit) ==
  \/ Arrive(Request("databases", [database |-> Absent]), limit)
  \/ \E d \in Databases : Arrive(Request("tables", [database |-> d]), limit)
  \/ \E d \in Databases : Arrive(Request("patients", [database |-> d]), limit)

ArriveSummary(bodies, limit) ==
  \E raw \in bodies : Arrive(Request("summary", raw), limit)

ArriveChat(bodies, limit) ==
  \E raw \in bodies : Arrive(Request("chat", raw), limit)

ServeDatabases ==
  \E i \in Pending :
    /\ requests[i].endpoint = "databases"
    /\ \E env \in ListEnvs({<<>>, <<"healthlake_db">>}) :
         Respond(i, get_databases(env))

ServeTables ==
  \E i \in Pending :
    /\ requests[i].endpoint = "tables"
    /\ \E env \in ListEnvs({<<"patient", "observation">>}) :
         Respond(i, get_database_tables(requests[i].raw.database, env))

ServePatients ==
  \E i \in Pending :
    /\ requests[i].endpoint = "patients"
    /\ \E env \in ListEnvs({<<"patient-1">>}) :
         Respond(i, get_patients(requests[i].raw.database, env))

ServeSummary ==
  \E i \in Pending :
    /\ requests[i].endpoint = "summary"
    /\ \E env \in PipelineEnvs :
         Respond(i, post_summary(requests[i].raw, env))

ServeChat ==
  \E i \in Pending :
    /\ requests[i].endpoint = "chat"
    /\ \E env \in LlmEnvs :
         Respond(i, post_chat(requests[i].raw, env))

Serve == ServeDatabases \/ ServeTables \/ ServePatients \/ ServeSummary \/ ServeChat

\* All five endpoints, requests interleaved.
Next ==
  \/ ArriveGet(MaxRequests)
  \/ ArriveSummary(SummarySample, MaxRequests)
  \/ ArriveChat(ChatSample, MaxRequests)
  \/ ServeDatabases
  \/ ServeTables
  \/ ServePatients
  \/ ServeSummary
  \/ ServeChat
Spec == Init /\ [][Next]_vars

\* Chat requests only, over the full chat domain.
NextChat ==
  \/ ArriveChat(ChatBodies, MaxRequests)
  \/ ServeChat
SpecChat == Init /\ [][NextChat]_vars

\* Summary requests only, over the full summary domain.
NextSummary ==
  \/ ArriveSummary(SummaryBodies, MaxSummaries)
  \/ ServeSummary
SpecSummary == Init /\ [][NextSummary]_vars

\* ------------------------------------------------------------------- claims
Range(f) == {f[i] : i \in DOMAIN f}
Contains(text, seg) == \E k \in DOMAIN text : text[k] = seg
\* The requests of one endpoint that passed validation and were answered.
Handled(endpoint) ==
  {i \in Done : requests[i].endpoint = endpoint /\ log[i].resp.status # 422}
ChatOf(i) == ChatRequest(requests[i].raw).val
SummaryOf(i) == SummaryRequest(requests[i].raw).val
PromptOf(i) == log[i].calls[1].args.prompts
Failed(i) == log[i].fault.stage # "none"

\* C1: on every endpoint, a request whose handler raised (in a collaborator
\* call or in the handler's own code) is answered 500 with the exception's
\* message as detail, never with a success or another status.
C1_FailureIs500 ==
  \A i \in Done :
    Failed(i) =>
      log[i].resp = [status |-> 500, body |-> [detail |-> log[i].fault.exc.msg]]

C1_Witness ==
  \E i, j \in Done :
    /\ log[i].fault.stage = "collaborator" /\ log[i].resp.status = 500
    /\ log[j].fault.stage = "handler" /\ log[j].resp.status = 500
    /\ requests[i].endpoint # requests[j].endpoint

\* C2: a chat request calls the LLM collaborator exactly once, failed or not;
\* on success the response field is the text the collaborator returned; on
\* failure the answer is the 500 error and carries no response text.
C2_SingleLlmCall ==
  \A i \in Handled("chat") :
    /\ Len(log[i].calls) = 1
    /\ log[i].calls[1].fn = "summary_llm"
    /\ log[i].got.raised =>
         /\ log[i].resp.status = 500
         /\ DOMAIN log[i].resp.body = {"detail"}
    /\ ~log[i].got.raised =>
         log[i].resp = [status |-> 200, body |-> [response |-> log[i].got.val]]

C2_Witness ==
  \E i, j \in Handled("chat") :
    /\ log[i].got.raised /\ log[i].resp.status = 500
    /\ ~log[j].got.raised /\ log[j].resp.status = 200

\* The three explicit instructions of the chat prompt.
Instructions == {AnswerFromRecord, NoVerbatimQuote, SayIfUnanswerable}
RecordBlockAt(text, k, context) ==
  /\ k > 1 /\ k < Len(text)
  /\ text[k - 1] = RecordOpen /\ text[k] = Val(context) /\ text[k + 1] = RecordClose

\* C3 as claimed: the prompt holds the context inside the record block, then
\* the question, then the three instructions.
C3_QuestionBeforeInstructions ==
  \A i \in Handled("chat") :
    LET text == PromptOf(i) IN
    \E c, q \in DOMAIN text :
      /\ RecordBlockAt(text, c, ChatOf(i).context)
      /\ c < q /\ text[q] = Val(ChatOf(i).question)
      /\ \A ins \in Instructions :
           \E k \in DOMAIN text : k > q /\ text[k] = ins

\* C3 amended: the prompt holds the context inside the record block, then the
\* three instructions (answer from the record, no verbatim quote, say so when
\* unanswerable) in that order, then the question as given, with "?" appended.
C3_InstructionsBeforeQuestion ==
  \A i \in Handled("chat") :
    LET text == PromptOf(i) IN
    \E c \in DOMAIN text :
      /\ RecordBlockAt(text, c, ChatOf(i).context)
      /\ \E a \in DOMAIN text :
           /\ c < a /\ text[a] = AnswerFromRecord
           /\ \E b \in DOMAIN text :
                /\ a < b /\ text[b] = NoVerbatimQuote
                /\ \E d \in DOMAIN text :
                     /\ b < d /\ text[d] = SayIfUnanswerable
                     /\ \E q \in DOMAIN text :
                          /\ d < q
                          /\ text[q - 1] = Lit("Question: ")
                          /\ text[q] = Val(ChatOf(i).question)
                          /\ q + 1 = Len(text) /\ text[q + 1] = Lit("?")

C3_Witness ==
  \E i \in Handled("chat") :
    /\ ChatOf(i).question # ""
    /\ ChatOf(i).context # ""
    /\ Contains(PromptOf(i), Val(ChatOf(i).question))

\* C5: the collaborator call of a chat request (prompt, system instruction,
\* model) depends on that request alone: two chat requests with the same
\* question, context and model issue the same call, whatever was handled
\* before them and whatever the earlier calls answered.
C5_ChatStateless ==
  \A i, j \in Handled("chat") :
    ChatOf(i) = ChatOf(j) => log[i].calls = log[j].calls

C5_Witness ==
  \E i, j \in Handled("chat") :
    /\ i < j
    /\ ChatOf(i) = ChatOf(j)
    /\ log[i].resp # log[j].resp
    /\ log[j].calls[1].args.params.model = ChatOf(j).model

\* C6: with an empty context the prompt still carries the instruction to say
\* so when the question cannot be answered, and a collaborator that echoes
\* its prompt yields an answer that carries it.
C6_EmptyContextRefusal ==
  \A i \in Handled("chat") :
    ChatOf(i).context = "" =>
      /\ Contains(PromptOf(i), SayIfUnanswerable)
      /\ (~log[i].got.raised /\ log[i].got.val = PromptOf(i)) =>
           /\ log[i].resp.status = 200
           /\ Contains(log[i].resp.body.response, SayIfUnanswerable)

C6_Witness ==
  \E i \in Handled("chat") :
    /\ ChatOf(i).context = ""
    /\ ChatOf(i).question # ""
    /\ ~log[i].got.raised
    /\ log[i].got.val = PromptOf(i)

\* What the pipeline must be handed for request r: every field of r, unchanged.
HandsOver(call, r) ==
  /\ call.fn = "db_summary"
  /\ call.args[2].table = r.tables
  /\ call.args[2].db = r.database
  /\ call.args[2].id = r.patient_id
  /\ call.args[2].template = r.prompt_template
  /\ call.args[2].model = r.model
  /\ call.args[2].summary_model = r.summary_model
ReturnsPair(i) ==
  ~log[i].got.raised =>
    log[i].resp = [status |-> 200,
                   body |-> [consolidated_summary |-> log[i].got.val[1],
                             fhir_section_summary |-> log[i].got.val[2]]]

\* C4 as claimed: every summary request makes exactly one pipeline invocation,
\* which carries every field of the request unchanged, and on success the
\* response is the pipeline's pair.
C4_AlwaysOneInvocation ==
  \A i \in Handled("summary") :
    /\ Len(log[i].calls) = 1
    /\ HandsOver(log[i].calls[1], SummaryOf(i))
    /\ ReturnsPair(i)

\* C4 amended: a summary request whose tables list is not empty makes exactly
\* one pipeline invocation, which carries every field of the request
\* unchanged, and on success the response is the pipeline's pair.
C4_OneInvocationWhenTablesGiven ==
  \A i \in Handled("summary") :
    SummaryOf(i).tables # <<>> =>
      /\ Len(log[i].calls) = 1
      /\ HandsOver(log[i].calls[1], SummaryOf(i))
      /\ ReturnsPair(i)

C4_Witness ==
  \E i \in Handled("summary") :
    /\ Len(SummaryOf(i).tables) = 2
    /\ SummaryOf(i).model # DefaultModel
    /\ log[i].resp.status = 200
    /\ Len(log[i].resp.body.fhir_section_summary) = 2

LlmStages == {"section_summary", "consolidation"}
C8_StageReported ==
  \A i \in Handled("summary") :
    log[i].fault.stage \in LlmStages =>
      ~(/\ log[i].resp.status = 500
        /\ log[i].resp.body = [detail |-> log[i].fault.exc.msg])

\* C9: a failure stays with its request.  A request is answered 500 only for
\* an exception raised while handling that very request; two requests with
\* the same content whose collaborator did the same thing get the same
\* response, whatever else was handled before or between them; and while a
\* request is pending a handler can run, errors before it or not.
C9_FailureScopedToRequest ==
  /\ \A i \in Done :
       log[i].resp.status = 500 =>
         /\ Failed(i)
         /\ log[i].resp.body.detail = log[i].fault.exc.msg
  /\ \A i \in Done : ~Failed(i) => log[i].resp.status \in {200, 422}
  /\ \A i, j \in Done :
       (requests[i] = requests[j] /\ log[i].got = log[j].got) =>
         log[i].resp = log[j].resp
  /\ Pending # {} => ENABLED Serve

C9_Witness ==
  \E i, j \in Done :
    /\ i < j
    /\ requests[i].endpoint # requests[j].endpoint
    /\ log[i].resp.status = 500
    /\ log[j].resp.status = 200
    /\ Pending = {}

\* C10: a summary request with an empty tables list passes validation, never
\* invokes the pipeline, and is answered 500 for the failed tables[0].
C10_EmptyTables500 ==
  \A i \in Done :
    (requests[i].endpoint = "summary" /\ requests[i].raw.tables = PyList(<<>>)) =>
      /\ log[i].resp.status = 500
      /\ log[i].calls = <<>>
      /\ log[i].fault.stage = "handler"
      /\ log[i].fault.exc.type = "IndexError"

C10_Witness ==
  \E i \in Done :
    /\ requests[i].endpoint = "summary"
    /\ requests[i].raw.tables = PyList(<<>>)
    /\ log[i].resp.status = 500

====
